---- MODULE Spec2Model ----
(***************************************************************************)
(* Model of get_validation_recalls (src/utils/validation.py).              *)
(*                                                                         *)
(* One call of the function is one behaviour: the inputs are fixed in      *)
(* Init, and the actions follow the body of the function in order:         *)
(*   BuildIndex  (lines 33-50)  embed_size, IndexFlatL2, add               *)
(*   Search      (line 53)      max(k_values), faiss_index.search          *)
(*   CountQuery  (lines 57-62)  one iteration of the outer for loop        *)
(*   Finish      (lines 64-74)  the division, the dict, the return         *)
(*                                                                         *)
(* The embedding matrices are represented by their shapes.  The search of  *)
(* the exact index returns, per query, the reference ids nearest first;    *)
(* which ranking it returns depends on the floating-point contents of the  *)
(* matrices, so Search draws the ranking of every query from all the       *)
(* orderings of the reference ids.  When fewer than k vectors are stored,  *)
(* the flat index fills the tail of each row with the label -1.            *)
(*                                                                         *)
(* Python positions are 0-based; the sequences below are 1-based, so       *)
(* k_values[i] of the code is k_values[i+1] here, and gt[q_idx] of the     *)
(* code is gt[q_idx+1].  Reference ids keep their 0-based values.          *)
(* An entry of gt (a scalar id or a collection of ids) is the set of its   *)
(* ids.  Spec covers the calls within the Max bounds; SpecSmall covers the *)
(* calls within the Small bounds, with the same actions.                   *)
(* The faiss_gpu branch builds an index with the same interface and does   *)
(* not change the returned values.  The print_results branch (lines 67-72) *)
(* builds a PrettyTable whose field names are 'K' and the cutoffs as text; *)
(* PrettyTable rejects repeated field names with a ValueError, so a call   *)
(* that prints and lists a cutoff twice raises in line 70 and returns      *)
(* nothing.                                                                *)
(***************************************************************************)
EXTENDS Integers, Sequences, FiniteSets

MaxN == 3      \* most reference vectors
MaxM == 2      \* most query vectors
MaxD == 2      \* largest embedding dimension
MaxLen == 3    \* longest k_values list
MaxK == 3      \* largest cutoff
MaxRel == 2    \* most relevant references listed for one query

\* the same bounds for SpecSmall, the calls with at most one query
SmallN == 2
SmallM == 1
SmallLen == 2
SmallK == 2
SmallRel == 1

VARIABLES
  rShape,        \* r_list.shape = <<N, D>>
  qShape,        \* q_list.shape = <<M, D>>
  k_values,      \* the list of cutoffs
  gt,            \* the ground truth: a sequence of sets of reference ids
  print_results, \* the print_results flag (True by default)
  pc,            \* position in the body of the function
  faiss_index,   \* the index: [d, ntotal], or NoIndex before it is built
  predictions,   \* result of the search: one row of labels per query
  q_idx,         \* loop variable of the outer loop (0-based, as in the code)
  correct_at_k,  \* the counters, then (after line 64) the fractions
  ret,           \* the returned pair, or NoValue
  err            \* the exception that left the function, or "none"

vars == <<rShape, qShape, k_values, gt, print_results, pc, faiss_index, predictions,
          q_idx, correct_at_k, ret, err>>

inputs == <<rShape, qShape, k_values, gt, print_results>>

NoIndex == [d |-> 0, ntotal |-> -1]
NoValue == [d |-> <<>>, predictions |-> <<>>, returned |-> FALSE]

N == rShape[1]
M == qShape[1]

----------------------------------------------------------------------------
(* Helpers *)

SeqsUpTo(S, n) == UNION {[1..m -> S] : m \in 0..n}

Min(S) == CHOOSE x \in S : \A y \in S : x <= y

\* Python's max() of a non-empty list
Max(s) == CHOOSE x \in {s[i] : i \in 1..Len(s)} : \A j \in 1..Len(s) : s[j] <= x

\* max(k_values) of line 53: raises ValueError on an empty list
PyMaxDefault(kv) == [raised |-> FALSE, value |-> IF kv = <<>> THEN 0 ELSE Max(kv)]
PyMax(kv) == [raised |-> kv = <<>>, value |-> IF kv = <<>> THEN 0 ELSE Max(kv)]

\* "assert d == self.d" of the index's search, d being q_list.shape[1]
DimUnchecked(d, index) == TRUE
DimAssert(d, index) == d = index.d

\* all orderings of the reference ids 0..n-1
Rankings(n) == {p \in [1..n -> 0..(n-1)] : \A i, j \in 1..n : p[i] = p[j] => i = j}

\* a row of labels returned by IndexFlatL2.search for k neighbours when the
\* index holds the n ids ranked as p: the first k of p, then -1 labels
Row(p, n, k) == [j \in 1..k |-> IF j <= n THEN p[j] ELSE -1]

\* pred[:n] as the set of its elements
Top(pred, n) == {pred[j] : j \in 1..(IF n < Len(pred) THEN n ELSE Len(pred))}

\* np.any(np.in1d(pred[:n], g))
AnyIn(pred, n, g) == Top(pred, n) \cap g # {}

\* the positions i at which the inner loop's test holds
HitPositions(kv, pred, g) == {i \in 1..Len(kv) : AnyIn(pred, kv[i], g)}

\* the inner loop with "correct_at_k[i] += 1" and no break
CountOneNoPropagation(correct, kv, pred, g) ==
  [i \in 1..Len(kv) |->
     IF i \in HitPositions(kv, pred, g) THEN correct[i] + 1 ELSE correct[i]]

\* the inner loop (lines 58-62) for one query: at the first position whose
\* test holds, correct_at_k[i:] += 1 and break
CountOne(correct, kv, pred, g) ==
  IF HitPositions(kv, pred, g) = {} THEN correct
  ELSE LET first == Min(HitPositions(kv, pred, g))
       IN [i \in 1..Len(kv) |-> IF i >= first THEN correct[i] + 1 ELSE correct[i]]

\* c / m of numpy on float64: the fraction, NaN when m = 0 (0/0)
Div(c, m) == [num |-> c, den |-> m]

\* {k: v for (k, v) in zip(k_values, correct_at_k)}: a later pair replaces
\* an earlier one with the same key
ZipDict(kv, vals) ==
  [k \in {kv[i] : i \in 1..Len(kv)} |->
     vals[CHOOSE i \in 1..Len(kv) : kv[i] = k /\ \A j \in 1..Len(kv) : kv[j] = k => j <= i]]

\* line 70: table.field_names = ['K'] + [str(k) for k in k_values] is accepted
\* by PrettyTable only when the names are distinct ('K' is no cutoff's text)
FieldNamesAny(kv) == TRUE
FieldNamesUnique(kv) == \A i, j \in 1..Len(kv) : kv[i] = kv[j] => i = j

----------------------------------------------------------------------------
(* The call *)

\* the call: any shapes, cutoff list and ground truth within the bounds; the
\* ground truth may be shorter or longer than the queries
InitBounded(maxN, maxM, maxLen, maxK, maxRel) ==
  /\ rShape \in (0..maxN) \X (1..MaxD)
  /\ qShape \in (0..maxM) \X (1..MaxD)
  /\ k_values \in SeqsUpTo(1..maxK, maxLen)
  /\ gt \in SeqsUpTo({g \in SUBSET (0..(rShape[1] - 1)) : Cardinality(g) <= maxRel}, maxM + 1)
  /\ print_results \in BOOLEAN
  /\ pc = "build"
  /\ faiss_index = NoIndex
  /\ predictions = <<>>
  /\ q_idx = 0
  /\ correct_at_k = <<>>
  /\ ret = NoValue
  /\ err = "none"

\* lines 33-50: embed_size = r_list.shape[1]; IndexFlatL2(embed_size); add
BuildIndex ==
  /\ pc = "build"
  /\ faiss_index' = [d |-> rShape[2], ntotal |-> N]
  /\ pc' = "search"
  /\ UNCHANGED <<inputs, predictions, q_idx, correct_at_k, ret, err>>

\* line 53: max(k_values) raises ValueError on an empty list before search
\* is called; search asserts d == self.d; line 56 makes the counters
Search ==
  /\ pc = "search"
  /\ IF PyMax(k_values).raised
       THEN /\ pc' = "raised"
            /\ err' = "ValueError"
            /\ UNCHANGED <<predictions, correct_at_k>>
     ELSE IF ~DimAssert(qShape[2], faiss_index)
       THEN /\ pc' = "raised"
            /\ err' = "AssertionError"
            /\ UNCHANGED <<predictions, correct_at_k>>
     ELSE /\ \E ranks \in [1..M -> Rankings(faiss_index.ntotal)] :
               predictions' = [q \in 1..M |->
                                 Row(ranks[q], faiss_index.ntotal, PyMax(k_values).value)]
          /\ correct_at_k' = [i \in 1..Len(k_values) |-> 0]
          /\ pc' = "count"
          /\ err' = err
  /\ UNCHANGED <<inputs, faiss_index, q_idx, ret>>

\* lines 57-62: one iteration of the outer loop; gt[q_idx] raises IndexError
\* when gt has no such position
CountQuery ==
  /\ pc = "count"
  /\ q_idx < Len(predictions)
  /\ IF q_idx + 1 > Len(gt)
       THEN /\ pc' = "raised"
            /\ err' = "IndexError"
            /\ UNCHANGED <<correct_at_k, q_idx>>
     ELSE /\ correct_at_k' = CountOne(correct_at_k, k_values,
                                      predictions[q_idx + 1], gt[q_idx + 1])
          /\ q_idx' = q_idx + 1
          /\ UNCHANGED <<pc, err>>
  /\ UNCHANGED <<inputs, faiss_index, predictions, ret>>

\* lines 64-74: the division and the dict; then, when print_results is set,
\* the table, which raises ValueError in line 70 on a repeated cutoff; then
\* the return
Finish ==
  /\ pc = "count"
  /\ q_idx = Len(predictions)
  /\ correct_at_k' = [i \in 1..Len(k_values) |-> Div(correct_at_k[i], Len(predictions))]
  /\ IF print_results /\ ~FieldNamesUnique(k_values)
       THEN /\ pc' = "raised"
            /\ err' = "ValueError"
            /\ ret' = ret
     ELSE /\ ret' = [d |-> ZipDict(k_values, correct_at_k'),
                     predictions |-> predictions,
                     returned |-> TRUE]
          /\ pc' = "done"
          /\ err' = err
  /\ UNCHANGED <<inputs, faiss_index, predictions, q_idx>>

Init == InitBounded(MaxN, MaxM, MaxLen, MaxK, MaxRel)

InitSmall == InitBounded(SmallN, SmallM, SmallLen, SmallK, SmallRel)

Next == BuildIndex \/ Search \/ CountQuery \/ Finish

Spec == Init /\ [][Next]_vars

SpecSmall == InitSmall /\ [][Next]_vars

----------------------------------------------------------------------------
(* Definitions used by the properties *)

Returned == pc = "done"
Raised == pc = "raised"
LoopDone == pc = "count" /\ q_idx = Len(predictions)

\* the queries whose first k predicted ids contain an id of their ground truth
HitQueries(k) == {q \in 1..M : AnyIn(predictions[q], k, gt[q])}

\* max(k_values[0..i]) in the code's positions: the largest of the first i cutoffs
PrefixMax(kv, i) == Max(SubSeq(kv, 1, i))

SortedAscending(kv) == \A i, j \in 1..Len(kv) : i < j => kv[i] <= kv[j]

\* a <= b on fractions with non-negative denominators
Leq(a, b) == a.num * b.den <= b.num * a.den

\* the NaN of 0/0
IsNaN(v) == v.den = 0

\* a number of the closed interval [0, 1]
InUnit(v) == ~IsNaN(v) /\ 0 <= v.num /\ v.num <= v.den

\* the rearrangements of a list
Permuted(kv) ==
  {[i \in 1..Len(kv) |-> kv[s[i]]] :
     s \in {t \in [1..Len(kv) -> 1..Len(kv)] : \A i, j \in 1..Len(kv) : t[i] = t[j] => i = j}}

\* lines 56-62 as a whole, for the cutoff list kv and the first q queries
RECURSIVE CountAll(_, _)
CountAll(kv, q) ==
  IF q = 0 THEN [i \in 1..Len(kv) |-> 0]
  ELSE CountOne(CountAll(kv, q - 1), kv, predictions[q], gt[q])

\* lines 56-65: the table the call returns for the cutoff list kv on the
\* predictions and ground truth of this call
TableFor(kv) ==
  ZipDict(kv, [i \in 1..Len(kv) |-> Div(CountAll(kv, Len(predictions))[i], Len(predictions))])

----------------------------------------------------------------------------
(* Properties *)

\* C1: when the call returns, the value of every cutoff k in the table is
\* (number of queries with a ground-truth id among their first k predicted
\* ids) / M, whatever the order of k_values.
C1_RecallIsHitFraction ==
  Returned => \A k \in DOMAIN ret.d : ret.d[k] = Div(Cardinality(HitQueries(k)), M)

\* C2: when the call returns, recall[K1] <= recall[K2] for all cutoffs
\* K1 < K2 of k_values, sorted or not (the fractions count/M are compared).
C2_Monotone ==
  Returned => \A K1, K2 \in DOMAIN ret.d : K1 < K2 => Leq(ret.d[K1], ret.d[K2])

\* C3: the table returned is the table the call returns for every
\* rearrangement of k_values, the other inputs and the predictions equal.
C3_OrderInsensitive ==
  Returned => \A kv \in Permuted(k_values) : TableFor(kv) = ret.d

\* C4: every value of a returned table is a number in [0, 1].
C4_Bounds ==
  Returned => \A k \in DOMAIN ret.d : InUnit(ret.d[k])

\* C5: when max(k_values) exceeds the number of references the call fails:
\* it returns neither a table nor predictions.
C5_InsufficientReferences ==
  (k_values # <<>> /\ Max(k_values) > N) => ~Returned /\ ~ret.returned

\* C6: when len(gt) differs from the number of queries the call fails: it
\* returns no table.
C6_GroundTruthLength ==
  Len(gt) # M => ~Returned /\ ~ret.returned

\* C7 as claimed: when the dimensions of queries and references differ the
\* call fails with the dimension error, before any recall is counted, and
\* never returns.
C7_DimensionMismatchAlways ==
  qShape[2] # rShape[2] =>
    /\ pc \in {"build", "search", "raised"}
    /\ Raised => err = "AssertionError"
    /\ ~ret.returned

\* C7 as amended: when the dimensions differ the call never counts and never
\* returns; it fails in line 53, with the dimension assertion of the search
\* when k_values is non-empty and with the ValueError of max() when it is empty.
C7_DimensionMismatch ==
  qShape[2] # rShape[2] =>
    /\ pc \in {"build", "search", "raised"}
    /\ Raised => err = (IF k_values = <<>> THEN "ValueError" ELSE "AssertionError")
    /\ correct_at_k = <<>> /\ predictions = <<>>
    /\ ~ret.returned

C7_Witness ==
  qShape[2] # rShape[2] /\ k_values # <<>> /\ M > 0 /\ Raised /\ err = "AssertionError"

\* C8: with an empty k_values the call fails with the ValueError of max() in
\* line 53; nothing is searched, counted or returned.
C8_EmptyCutoffs ==
  k_values = <<>> =>
    /\ pc \in {"build", "search", "raised"}
    /\ Raised => err = "ValueError"
    /\ predictions = <<>> /\ correct_at_k = <<>>
    /\ ret = NoValue

C8_Witness ==
  k_values = <<>> /\ M > 0 /\ Len(gt) = M /\ qShape[2] = rShape[2] /\ Raised /\ err = "ValueError"

\* the counters after one query as C9 describes them: the query is counted
\* at the smallest cutoff whose top-k ids meet g and at every larger cutoff
\* of the list, at no smaller cutoff, and nowhere when no cutoff meets g
CountedFromSmallestHit(correct, kv, pred, g) ==
  LET hitKs == {kv[i] : i \in HitPositions(kv, pred, g)}
  IN IF hitKs = {} THEN correct
     ELSE [i \in 1..Len(kv) |->
             IF kv[i] >= Min(hitKs) THEN correct[i] + 1 ELSE correct[i]]

\* C9: every iteration of the outer loop (lines 57-62) that processes a query
\* q changes the counters as follows: q is counted at the smallest cutoff of
\* k_values whose top-k predicted ids meet gt[q] and at every larger cutoff
\* of the list, and at no smaller cutoff; a query that meets gt[q] at no
\* cutoff changes no counter.
C9_HitPropagation ==
  [][(pc = "count" /\ q_idx' = q_idx + 1) =>
       correct_at_k' = CountedFromSmallestHit(correct_at_k, k_values,
                                              predictions[q_idx + 1], gt[q_idx + 1])]_vars

\* C10: after the counting loop, with at least one cutoff and one query, the
\* counter at position i is the number of queries with a ground-truth id
\* among their first max(k_values[0..i]) predicted ids; the counters do not
\* decrease along the list; for an ascending list the counter at position i
\* is the number of queries hit within the top k_values[i].
C10_PrefixMax ==
  (LoopDone /\ Len(k_values) >= 1 /\ M >= 1) =>
    /\ \A i \in 1..Len(k_values) :
         correct_at_k[i] = Cardinality(HitQueries(PrefixMax(k_values, i)))
    /\ \A i, j \in 1..Len(k_values) : i < j => correct_at_k[i] <= correct_at_k[j]
    /\ SortedAscending(k_values) =>
         \A i \in 1..Len(k_values) :
           correct_at_k[i] = Cardinality(HitQueries(k_values[i]))

C10_Witness ==
  /\ LoopDone /\ M >= 1 /\ Len(k_values) >= 2
  /\ \E i, j \in 1..Len(k_values) :
       /\ i < j /\ k_values[i] > k_values[j]
       /\ correct_at_k[j] > Cardinality(HitQueries(k_values[j]))

====
